---- MODULE Spec2Model ----
(***************************************************************************)
(* KVStore (rust-lib/flowy-infra/src/kv/kv.rs): the process-wide key-value *)
(* store behind the KV_HOLDER reader/writer lock, its sqlite database      *)
(* files, and the threads that call init, set, get, remove and the eight   *)
(* typed accessors generated by impl_set_func / impl_get_func.             *)
(***************************************************************************)
EXTENDS Integers, Sequences, FiniteSets, TLC

\* ------------------------------------------------------------ bounds
\* Calls issued in one behaviour when calls may overlap (Spec), when each call
\* ends before the next is issued (SpecSerial), and when the threads are scheduled
\* fairly (SpecFair).
MaxCalls == 3

MaxSerialCalls == 4

MaxFairCalls == 2

Threads == {"t1", "t2"}
Keys == {"1", "2"}
\* Root paths handed to init: two directories that exist, one that does not.
Dirs == {"d1", "d2", "nodir"}
ExistingDirs == {"d1", "d2"}

\* ------------------------------------------------------------ values
\* Option<T>: None is the empty tuple, Some(v) the one-element tuple.
None == <<>>

Some(v) == <<v>>

\* The four value columns of KeyValue, named as the struct's fields.
Types == {"str_value", "int_value", "float_value", "bool_value"}

\* Values of each column's type; an f64 is written in tenths (15 is 1.5).
Vals(typ) ==
    CASE typ = "str_value" -> {"hello", "bye"}
      [] typ = "int_value" -> {7}
      [] typ = "float_value" -> {15}
      [] typ = "bool_value" -> {TRUE}

\* A constructor that defaults the integer field to zero.
KeyValueNewZero(key) ==
    [key |-> key, str_value |-> None, int_value |-> Some(0),
     float_value |-> None, bool_value |-> None]

\* KeyValue::new: the key, every value field defaulted to None.
KeyValueNew(key) ==
    [key |-> key, str_value |-> None, int_value |-> None,
     float_value |-> None, bool_value |-> None]

\* item.$set_method = Some(value)
SetField(item, typ, value) == [item EXCEPT ![typ] = Some(value)]

\* item.$get_method
GetField(item, typ) == item[typ]

\* Records a caller hands to the low-level set: no field, one field, two.
RawItems ==
    UNION {{KeyValueNew(k),
            SetField(KeyValueNew(k), "int_value", 7),
            SetField(SetField(KeyValueNew(k), "str_value", "hello"), "int_value", 7)}
           : k \in Keys}

\* ------------------------------------------------------------ results
Ok(v) == [tag |-> "Ok", val |-> v]

Err(msg) == [tag |-> "Err", val |-> msg]

Panic(msg) == [tag |-> "Panic", val |-> msg]

Unit == "()"

NoRet == [tag |-> "-", val |-> "-"]

\* The String errors the functions return, and the panic messages. The not-exists
\* message carries the root's text in the code; the call record keeps the root.
ErrNotExists == "Init KVStore failed. not exists"

ErrWriteFailed == "KVStore write failed: PoisonError"

ErrGetConnection == "KVStore get connection failed: PoisonError"

ErrNotFound == "NotFound"

ErrEngine == "DatabaseError"

PanicNotInit == "KVStore is not init"

PanicUnwrap == "called Result::unwrap() on an Err value"

\* ------------------------------------------------------------ calls
NoThread == "-"

NoItem == KeyValueNew("-")

\* A call: the function (op; typ tells the typed accessors apart), its arguments
\* (root; key; item; value, in a tuple), and for a typed setter the item it builds.
InitCall(root) ==
    [op |-> "init", typ |-> "-", key |-> "-", value |-> None, item |-> NoItem, root |-> root]

SetCall(item) ==
    [op |-> "set", typ |-> "-", key |-> item.key, value |-> None, item |-> item, root |-> "-"]

GetCall(key) ==
    [op |-> "get", typ |-> "-", key |-> key, value |-> None, item |-> NoItem, root |-> "-"]

RemoveCall(key) ==
    [op |-> "remove", typ |-> "-", key |-> key, value |-> None, item |-> NoItem, root |-> "-"]

\* $func_name(key, value) of impl_set_func: let mut item = KeyValue::new(key);
\* item.$set_method = Some(value); and then KVStore::set(item).
TypedSetCall(typ, key, value) ==
    [op |-> "set_T", typ |-> typ, key |-> key, value |-> <<value>>,
     item |-> SetField(KeyValueNew(key), typ, value), root |-> "-"]

\* $func_name(k) of impl_get_func.
TypedGetCall(typ, key) ==
    [op |-> "get_T", typ |-> typ, key |-> key, value |-> None, item |-> NoItem, root |-> "-"]

NoCall ==
    [op |-> "-", typ |-> "-", key |-> "-", value |-> None, item |-> NoItem, root |-> "-"]

Calls ==
    {InitCall(d) : d \in Dirs}
    \cup {SetCall(i) : i \in RawItems}
    \cup {GetCall(k) : k \in Keys}
    \cup {RemoveCall(k) : k \in Keys}
    \cup UNION {{TypedSetCall(ty, k, v) : v \in Vals(ty)} : <<ty, k>> \in Types \X Keys}
    \cup {TypedGetCall(ty, k) : <<ty, k>> \in Types \X Keys}

\* ------------------------------------------------------------ state
VARIABLES
    slot,       \* KV_HOLDER's KVStore.database: None or Some(the directory opened)
    disk,       \* the rows of kv_table in each directory's kv.db
    schema,     \* the directories whose kv.db holds kv_table
    readers,    \* threads holding KV_HOLDER's read guard
    writer,     \* the thread holding KV_HOLDER's write guard
    poisoned,   \* KV_HOLDER is poisoned
    pc,         \* each thread's place in its call
    call,       \* each thread's current call, or the call that ended last
    conn,       \* the database a thread's connection (or init's Database) is of
    inner,      \* the Result of KVStore::set / get / remove / init inside the call
    ret,        \* what the call returned to its caller
    log,        \* the log::error! messages each thread's call wrote
    calls,      \* calls issued so far (the outside panic of PoisonLock is one)
    fault,      \* what the environment failed in a thread's last step
    written,    \* per directory, the keys ever stored in kv_table
    settled,    \* per key, the last write that ran alone and has no later write
    armed,      \* per thread, the settled write its get was issued after
    clean       \* per thread, what ran beside its write: "no" call that matters, an
                \* init ("same" or "other" database), or a write of its key ("dirty")

vars ==
    <<slot, disk, schema, readers, writer, poisoned, pc, call, conn, inner, ret,
      log, calls, fault, written, settled, armed, clean>>

lockVars == <<readers, writer, poisoned>>

\* What is kept of a thread's call: of the running calls, and of the one call that
\* ended last, until the next call is issued.
callVars == <<call, inner, ret, log, fault, armed>>

\* The rows of the kv.db an earlier run of the process left in d2; d1 holds no kv.db.
PriorRows == {SetField(KeyValueNew("1"), "str_value", "hello")}

PriorDisk == [d \in Dirs |-> IF d = "d2" THEN PriorRows ELSE {}]

\* KVStore::new behind lazy_static: no database; nothing locked.
Init ==
    /\ slot = None
    /\ disk = PriorDisk
    /\ schema = {d \in Dirs : disk[d] # {}}
    /\ readers = {}
    /\ writer = NoThread
    /\ poisoned = FALSE
    /\ pc = [t \in Threads |-> "idle"]
    /\ call = [t \in Threads |-> NoCall]
    /\ conn = [t \in Threads |-> "-"]
    /\ inner = [t \in Threads |-> NoRet]
    /\ ret = [t \in Threads |-> NoRet]
    /\ log = [t \in Threads |-> {}]
    /\ calls = 0
    /\ fault = [t \in Threads |-> "none"]
    /\ written = [d \in Dirs |-> {r.key : r \in disk[d]}]
    /\ settled = [k \in Keys |-> None]
    /\ armed = [t \in Threads |-> None]
    /\ clean = [t \in Threads |-> "dirty"]

\* ------------------------------------------------------------ helpers
\* An init without its path check.
PathExistsAlways(root) == TRUE

\* Path::new(root).exists()
PathExists(root) == root \in ExistingDirs

\* A schema statement that drops the table and creates it anew.
ExecuteKvSqlRecreate(rows, hasTable) == {}

\* SqliteConnection::execute(&*conn, KV_SQL): kv_table is created if the file has
\* none; the rows of an existing table stay.
ExecuteKvSql(rows, hasTable) == IF hasTable THEN rows ELSE {}

\* The query without its filter.
FilterAny(rows, key) == rows

\* .filter(kv_table::key.eq(key))
FilterKey(rows, key) == {r \in rows : r.key = key}

\* INSERT OR IGNORE in place of REPLACE: the row of the key, if any, stays.
ReplaceIntoIgnore(rows, item) ==
    IF FilterKey(rows, item.key) # {} THEN rows ELSE rows \cup {item}

\* A plain INSERT into a table without the primary key: the old row stays too.
ReplaceIntoAppend(rows, item) == rows \cup {item}

\* An update of the fields the item has, in place of REPLACE.
ReplaceIntoMerge(rows, item) ==
    (rows \ FilterKey(rows, item.key))
    \cup (IF FilterKey(rows, item.key) = {}
          THEN {item}
          ELSE {[key |-> item.key,
                 str_value |-> IF item.str_value # None THEN item.str_value ELSE r.str_value,
                 int_value |-> IF item.int_value # None THEN item.int_value ELSE r.int_value,
                 float_value |-> IF item.float_value # None THEN item.float_value
                                 ELSE r.float_value,
                 bool_value |-> IF item.bool_value # None THEN item.bool_value
                                ELSE r.bool_value]
                : r \in FilterKey(rows, item.key)})

\* diesel::replace_into(kv_table::table).values(&item): key is the primary key, so
\* the row of that key, if any, is deleted and item inserted.
ReplaceInto(rows, item) == (rows \ FilterKey(rows, item.key)) \cup {item}

\* .first::<KeyValue>(&*conn).map_err(..): the row, or diesel's NotFound.
First(rows) == IF rows = {} THEN Err(ErrNotFound) ELSE Ok(CHOOSE r \in rows : TRUE)

\* A delete that deletes nothing.
DeleteNothing(rows, key) == rows

\* diesel::delete(sql).execute(&*conn): the rows of the filter are deleted.
DeleteFrom(rows, key) == rows \ FilterKey(rows, key)

\* A remove that takes zero rows deleted for a failure.
DeleteResultStrict(deleted) == IF deleted = 0 THEN Err(ErrNotFound) ELSE Ok(Unit)

\* let _ = ...execute(&*conn)...?; Ok(()): the number of rows deleted is dropped.
DeleteResult(deleted) == Ok(Unit)

\* A value a typed accessor returns.
Return(v) == [tag |-> "Return", val |-> v]

\* impl_set_func: match KVStore::set(item) { Ok(_) => {}, Err(e) => log::error! }
TypedSetReturn(result) == IF result.tag = "Panic" THEN result ELSE Return(Unit)

TypedSetLog(result) == IF result.tag = "Err" THEN {<<"set_T", result.val>>} ELSE {}

\* A typed getter that takes a record without its field for a failure.
TypedGetReturnMismatch(typ, result) ==
    CASE result.tag = "Ok" ->
            IF GetField(result.val, typ) = None
            THEN Err("TypeMismatch")
            ELSE Return(GetField(result.val, typ))
      [] result.tag = "Err" -> Return(None)
      [] OTHER -> result

\* impl_get_func: match KVStore::get(k) { Ok(item) => item.$get_method, Err(_) => None }
TypedGetReturn(typ, result) ==
    CASE result.tag = "Ok" -> Return(GetField(result.val, typ))
      [] result.tag = "Err" -> Return(None)
      [] OTHER -> result

\* What call c returns when the KVStore function under it ends with result.
Returned(c, result) ==
    CASE c.op = "set_T" -> TypedSetReturn(result)
      [] c.op = "get_T" -> TypedGetReturn(c.typ, result)
      [] OTHER -> result

Logged(c, result) == IF c.op = "set_T" THEN TypedSetLog(result) ELSE {}

IsWrite(c) == c.op \in {"set", "set_T", "remove"}

IsRead(c) == c.op \in {"get", "get_T"}

WritesKey(c, k) == IsWrite(c) /\ c.key = k

InFlight(t) == pc[t] # "idle"

\* Thread t goes on to the next place of its call.
Goto(t, place) ==
    /\ pc' = [pc EXCEPT ![t] = place]
    /\ UNCHANGED callVars

\* The call of t ends here: result is what KVStore::set/get/remove/init gave, why
\* what the environment failed (none: nothing), more what get_connection logged.
\* What was kept of a call that ended before is dropped.
Finish(t, result, why, more) ==
    /\ pc' = [pc EXCEPT ![t] = "idle"]
    /\ call' = [u \in Threads |-> IF InFlight(u) THEN call[u] ELSE NoCall]
    /\ inner' = [u \in Threads |-> IF u = t THEN result ELSE IF InFlight(u) THEN inner[u] ELSE NoRet]
    /\ ret' = [u \in Threads |->
                 IF u = t THEN Returned(call[t], result)
                 ELSE IF InFlight(u) THEN ret[u] ELSE NoRet]
    /\ log' = [u \in Threads |->
                 IF u = t THEN more \cup Logged(call[t], result)
                 ELSE IF InFlight(u) THEN log[u] ELSE {}]
    /\ fault' = [u \in Threads |->
                   IF u = t THEN why ELSE IF InFlight(u) THEN fault[u] ELSE "none"]
    /\ armed' = [u \in Threads |-> IF InFlight(u) THEN armed[u] ELSE None]

\* A write of t that ran alone becomes the settled write of its key: the function
\* called and its arguments, that it left a row (kind "row") or none (kind
\* "removed"), whether there was a row of the key before (replaced), whether that
\* row had a value field the item has not (shed), and whether an init ran beside
\* the write or after it (reinit).
Settle(t, kind, old) ==
    IF clean[t] = "dirty"
    THEN settled
    ELSE [settled EXCEPT ![call[t].key] =
            Some([by |-> call[t].op, typ |-> call[t].typ, value |-> call[t].value,
                  item |-> call[t].item, kind |-> kind,
                  replaced |-> old # {},
                  shed |-> \E r \in old : \E ty \in Types :
                              r[ty] # None /\ call[t].item[ty] = None,
                  reinit |-> clean[t]])]

\* What an init call c does to the installed database: "other" when it opens an
\* existing directory that is not the installed one, else "same".
InitLevel(c) ==
    IF c.root \in ExistingDirs /\ slot # Some(c.root) THEN "other" ELSE "same"

Worse(a, b) ==
    CASE "dirty" \in {a, b} -> "dirty"
      [] "other" \in {a, b} -> "other"
      [] "same" \in {a, b} -> "same"
      [] OTHER -> "no"

Reinit(s, level) ==
    IF s = None THEN None ELSE Some([s[1] EXCEPT !.reinit = Worse(@, level)])

\* A read lock that does not wait for the writer.
CanReadBesideWriter == TRUE

\* KV_HOLDER.read() returns when no thread holds the write guard.
CanRead == writer = NoThread

\* A write lock that waits for the readers only.
CanWriteBesideWriter == readers = {}

\* KV_HOLDER.write() returns when no thread holds a guard of either kind.
CanWrite == writer = NoThread /\ readers = {}

\* A checkout that moves the handle out of the slot (Option::take).
Take(s) == None

\* store.database.as_ref(): the handle is borrowed and the slot keeps it.
AsRef(s) == s

\* An init that installs only into an empty slot.
InstalledOnce(s, database) == IF s = None THEN Some(database) ELSE s

\* store.database = Some(database): whatever the slot held is overwritten.
Installed(s, database) == Some(database)

\* A statement that runs on the database installed when it runs.
DatabaseInstalled(t) == slot[1]

\* &*conn: the statement runs on the connection the call checked out, which is of
\* the database that was installed at the checkout.
ConnDatabase(t) == conn[t]

\* An init that returns without dropping its write guard.
WriteGuardLeaked(t) == t

\* The write guard store goes out of scope when init returns: no writer.
WriteGuardDropped(t) == NoThread

\* ------------------------------------------------------------ actions
\* A thread calls one of the public functions (limit bounds the calls issued).
Call(t, limit) ==
    /\ pc[t] = "idle"
    /\ calls < limit
    /\ \E c \in Calls :
        /\ call' = [u \in Threads |->
                      IF u = t THEN c ELSE IF InFlight(u) THEN call[u] ELSE NoCall]
        /\ pc' = [pc EXCEPT ![t] = IF c.op = "init" THEN "init" ELSE "read"]
        /\ settled' = [k \in Keys |->
                         IF WritesKey(c, k) THEN None
                         ELSE IF c.op = "init" THEN Reinit(settled[k], InitLevel(c))
                         ELSE settled[k]]
        /\ armed' = [u \in Threads |->
                       IF u = t THEN (IF IsRead(c) THEN settled[c.key] ELSE None)
                       ELSE IF ~InFlight(u) THEN None
                       ELSE IF WritesKey(c, call[u].key) THEN None
                       ELSE IF c.op = "init" THEN Reinit(armed[u], InitLevel(c))
                       ELSE armed[u]]
        /\ clean' = [u \in Threads |->
                       IF u = t
                       THEN (IF ~IsWrite(c) THEN "dirty"
                             ELSE IF \E w \in Threads \ {t} :
                                       InFlight(w) /\ WritesKey(call[w], c.key)
                                  THEN "dirty"
                             ELSE IF \E w \in Threads \ {t} :
                                       InFlight(w) /\ call[w].op = "init"
                                  THEN "other"
                             ELSE "no")
                       ELSE IF ~(InFlight(u) /\ IsWrite(call[u])) THEN "dirty"
                       ELSE IF WritesKey(c, call[u].key) THEN "dirty"
                       ELSE IF c.op = "init" THEN Worse(clean[u], InitLevel(c))
                       ELSE clean[u]]
    /\ calls' = calls + 1
    /\ inner' = [u \in Threads |-> IF u # t /\ InFlight(u) THEN inner[u] ELSE NoRet]
    /\ ret' = [u \in Threads |-> IF u # t /\ InFlight(u) THEN ret[u] ELSE NoRet]
    /\ log' = [u \in Threads |-> IF u # t /\ InFlight(u) THEN log[u] ELSE {}]
    /\ fault' = [u \in Threads |-> IF u # t /\ InFlight(u) THEN fault[u] ELSE "none"]
    /\ UNCHANGED <<slot, disk, schema, lockVars, conn, written>>

\* get_connection: KV_HOLDER.read(). It waits while a writer holds the lock; on a
\* poisoned lock it is the Err arm: the message is logged and returned.
AcquireRead(t) ==
    /\ pc[t] = "read"
    /\ CanRead
    /\ IF poisoned
       THEN /\ Finish(t, Err(ErrGetConnection), "poisoned",
                      {<<"get_connection", ErrGetConnection>>})
            /\ UNCHANGED readers
       ELSE /\ readers' = readers \cup {t}
            /\ Goto(t, "locked")
    /\ UNCHANGED <<slot, disk, schema, writer, poisoned, conn, calls, written, settled, clean>>

\* get_connection, the Ok(store) arm: store.database.as_ref().expect(..) panics on
\* None; get_connection() of the pool gives a connection or the pool's error. The
\* read guard is dropped on the way out.
Checkout(t) ==
    /\ pc[t] = "locked"
    /\ readers' = readers \ {t}
    /\ slot' = AsRef(slot)
    /\ \/ /\ slot = None
          /\ Finish(t, Panic(PanicNotInit), "none", {})
          /\ UNCHANGED conn
       \/ /\ slot # None
          /\ conn' = [conn EXCEPT ![t] = slot[1]]
          /\ Goto(t, "exec")
       \/ /\ slot # None
          /\ Finish(t, Err(ErrEngine), "pool", {})
          /\ UNCHANGED conn
    /\ UNCHANGED <<disk, schema, writer, poisoned, calls, written, settled, clean>>

\* KVStore::set after get_connection: replace_into ... execute.
ExecSet(t) ==
    /\ pc[t] = "exec"
    /\ call[t].op \in {"set", "set_T"}
    /\ LET d == ConnDatabase(t)
           old == FilterKey(disk[d], call[t].key) IN
       \/ /\ disk' = [disk EXCEPT ![d] = ReplaceInto(disk[d], call[t].item)]
          /\ Finish(t, Ok(Unit), "none", {})
          /\ written' = [written EXCEPT ![d] = @ \cup {call[t].key}]
          /\ settled' = Settle(t, "row", old)
       \/ /\ Finish(t, Err(ErrEngine), "execute", {})
          /\ UNCHANGED <<disk, written, settled>>
    /\ conn' = [conn EXCEPT ![t] = "-"]
    /\ clean' = [clean EXCEPT ![t] = "dirty"]
    /\ UNCHANGED <<slot, schema, lockVars, calls>>

\* KVStore::get after get_connection: filter ... first.
ExecGet(t) ==
    /\ pc[t] = "exec"
    /\ call[t].op \in {"get", "get_T"}
    /\ \/ Finish(t, First(FilterKey(disk[ConnDatabase(t)], call[t].key)), "none", {})
       \/ Finish(t, Err(ErrEngine), "execute", {})
    /\ conn' = [conn EXCEPT ![t] = "-"]
    /\ UNCHANGED <<slot, disk, schema, lockVars, calls, written, settled, clean>>

\* KVStore::remove after get_connection: delete(filter) ... execute.
ExecRemove(t) ==
    /\ pc[t] = "exec"
    /\ call[t].op = "remove"
    /\ LET d == ConnDatabase(t)
           old == FilterKey(disk[d], call[t].key) IN
       \/ /\ disk' = [disk EXCEPT ![d] = DeleteFrom(disk[d], call[t].key)]
          /\ Finish(t, DeleteResult(Cardinality(old)), "none", {})
          /\ settled' = Settle(t, "removed", old)
       \/ /\ Finish(t, Err(ErrEngine), "execute", {})
          /\ UNCHANGED <<disk, settled>>
    /\ conn' = [conn EXCEPT ![t] = "-"]
    /\ clean' = [clean EXCEPT ![t] = "dirty"]
    /\ UNCHANGED <<slot, schema, lockVars, calls, written>>

\* KVStore::init up to the lock: the path check, then Database::new,
\* get_connection and the schema statement, each unwrapped.
InitOpen(t) ==
    /\ pc[t] = "init"
    /\ LET root == call[t].root IN
       \/ /\ ~PathExists(root)
          /\ Finish(t, Err(ErrNotExists), "none", {})
          /\ UNCHANGED <<disk, schema, conn>>
       \/ /\ PathExists(root)
          /\ disk' = [disk EXCEPT ![root] = ExecuteKvSql(disk[root], root \in schema)]
          /\ schema' = schema \cup {root}
          /\ conn' = [conn EXCEPT ![t] = root]
          /\ Goto(t, "wlock")
       \/ /\ PathExists(root)
          /\ \E why \in {"open", "pool", "execute"} :
                Finish(t, Panic(PanicUnwrap), why, {})
          /\ UNCHANGED <<disk, schema, conn>>
    /\ UNCHANGED <<slot, lockVars, calls, written, settled, clean>>

\* KVStore::init: KV_HOLDER.write(). It waits for the readers and the writer to
\* leave; on a poisoned lock map_err makes the error init returns.
AcquireWrite(t) ==
    /\ pc[t] = "wlock"
    /\ CanWrite
    /\ IF poisoned
       THEN /\ Finish(t, Err(ErrWriteFailed), "poisoned", {})
            /\ conn' = [conn EXCEPT ![t] = "-"]
            /\ UNCHANGED writer
       ELSE /\ writer' = t
            /\ Goto(t, "wlocked")
            /\ UNCHANGED conn
    /\ UNCHANGED <<slot, disk, schema, readers, poisoned, calls, written, settled, clean>>

\* KVStore::init: store.database = Some(database); the write guard is dropped.
Install(t) ==
    /\ pc[t] = "wlocked"
    /\ slot' = Installed(slot, conn[t])
    /\ writer' = WriteGuardDropped(t)
    /\ conn' = [conn EXCEPT ![t] = "-"]
    /\ Finish(t, Ok(Unit), "none", {})
    /\ UNCHANGED <<disk, schema, readers, poisoned, calls, written, settled, clean>>

\* KV_HOLDER is a pub static: code outside this file that panics while it holds
\* KV_HOLDER.write() leaves the lock poisoned.
PoisonLock(limit) ==
    /\ calls < limit
    /\ writer = NoThread
    /\ readers = {}
    /\ ~poisoned
    /\ poisoned' = TRUE
    /\ calls' = calls + 1
    /\ UNCHANGED <<slot, disk, schema, readers, writer, pc, conn, callVars,
                   written, settled, clean>>

\* A step of a call that is running.
Step(t) ==
    \/ AcquireRead(t)
    \/ Checkout(t)
    \/ ExecSet(t)
    \/ ExecGet(t)
    \/ ExecRemove(t)
    \/ InitOpen(t)
    \/ AcquireWrite(t)
    \/ Install(t)

\* Threads call into the store at any time.
Next ==
    \/ \E t \in Threads : Call(t, MaxCalls) \/ Step(t)
    \/ PoisonLock(MaxCalls)

Spec == Init /\ [][Next]_vars

\* One caller: each call ends before the next is issued.
Serial == \A u \in Threads : ~InFlight(u)

NextSerial ==
    \/ \E t \in Threads : (Serial /\ Call(t, MaxSerialCalls)) \/ Step(t)
    \/ PoisonLock(MaxSerialCalls)

SpecSerial == Init /\ [][NextSerial]_vars

\* Threads that run: a call whose next step stays possible takes it (the scheduler
\* runs every thread, and a lock that stays free is granted).
NextFair ==
    \/ \E t \in Threads : Call(t, MaxFairCalls) \/ Step(t)
    \/ PoisonLock(MaxFairCalls)

SpecFair == Init /\ [][NextFair]_vars /\ \A t \in Threads : WF_vars(Step(t))

\* ------------------------------------------------------------ claims
\* The call of t ends in this step.
Ends(t) == InFlight(t) /\ pc'[t] = "idle"

\* The database the running call of t acts on: that of the connection it has
\* checked out, and before the checkout that of the installed handle.
ActsOn(t) == IF pc[t] = "exec" THEN conn[t] ELSE slot[1]

\* The get of t was issued after the settled write of its key had returned, no
\* write of that key was issued since, and no init ran beside them or in between
\* but those inits lets in: {} none, {"same"} those that leave the installed
\* database in place, {"same", "other"} all.
After(t, inits) == armed[t] # None /\ armed[t][1].reinit \in {"no"} \cup inits

\* C1: while the handle slot is empty, a call of set, get or remove ends by
\* returning an error value to its caller: it does not panic and does not succeed.
C1_UninitializedIsError ==
    [][\A t \in Threads :
         (Ends(t) /\ call[t].op \in {"set", "get", "remove"} /\ slot = None)
         => ret'[t].tag = "Err"]_vars

\* C2: a get_T(k) issued after set_T(k, v) returned, with no set or remove of k
\* and no init in between, returns Some(v), when the lock and the engine served
\* both calls (a set that failed is logged, and set_T returns all the same).
C2_TypedSetThenGet ==
    [][\A t \in Threads :
         (/\ Ends(t)
          /\ call[t].op = "get_T"
          /\ After(t, {})
          /\ armed[t][1].by = "set_T"
          /\ armed[t][1].typ = call[t].typ
          /\ fault'[t] = "none")
         => /\ ret'[t].tag = "Return"
            /\ ret'[t].val = armed[t][1].value]_vars

\* C2's case: set_T replaced an older row of the key and get_T gave the new value.
C2_Witness ==
    \E t \in Threads :
        /\ pc[t] = "idle"
        /\ call[t].op = "get_T"
        /\ After(t, {})
        /\ armed[t][1].by = "set_T"
        /\ armed[t][1].typ = call[t].typ
        /\ armed[t][1].replaced
        /\ fault[t] = "none"
        /\ ret[t].tag = "Return"
        /\ ret[t].val = armed[t][1].value
        /\ ret[t].val # None

\* C3: on an initialized store, get_T of a key that was never stored in the
\* database the call acts on returns None, for every T, whatever other keys hold.
C3_NeverWrittenIsNone ==
    [][\A t \in Threads :
         (/\ Ends(t)
          /\ call[t].op = "get_T"
          /\ slot # None
          /\ call[t].key \notin written[ActsOn(t)])
         => /\ ret'[t].tag = "Return"
            /\ ret'[t].val = None]_vars

\* C3's case: another key has a row, and the lookup of this key found none.
C3_Witness ==
    \E t \in Threads :
        /\ pc[t] = "idle"
        /\ call[t].op = "get_T"
        /\ slot # None
        /\ call[t].key \notin written[slot[1]]
        /\ FilterKey(disk[slot[1]], call[t].key) # disk[slot[1]]
        /\ inner[t].tag = "Err"
        /\ inner[t].val = ErrNotFound
        /\ ret[t].tag = "Return"
        /\ ret[t].val = None

\* C4: a get(k) issued after a set of a record of key k returned, with no write
\* of k and no init in between, returns exactly that record: no field of the row
\* the set replaced is left (the lock and the engine serving both calls).
C4_SetReplacesRow ==
    [][\A t \in Threads :
         (/\ Ends(t)
          /\ call[t].op = "get"
          /\ After(t, {})
          /\ armed[t][1].kind = "row"
          /\ fault'[t] = "none")
         => /\ ret'[t].tag = "Ok"
            /\ ret'[t].val = armed[t][1].item]_vars

\* C4's case: the low-level set replaced a row that had a field its record has
\* not, and get gave the record.
C4_Witness ==
    \E t \in Threads :
        /\ pc[t] = "idle"
        /\ call[t].op = "get"
        /\ After(t, {})
        /\ armed[t][1].kind = "row"
        /\ armed[t][1].by = "set"
        /\ armed[t][1].shed
        /\ fault[t] = "none"
        /\ ret[t].tag = "Ok"
        /\ ret[t].val = armed[t][1].item

\* C5: on an initialized store, a remove(k) the engine serves while k has no row
\* returns Ok and leaves the rows of every database as they were.
C5_RemoveMissingIsOk ==
    [][\A t \in Threads :
         (/\ Ends(t)
          /\ call[t].op = "remove"
          /\ slot # None
          /\ FilterKey(disk[ActsOn(t)], call[t].key) = {}
          /\ fault'[t] = "none")
         => /\ ret'[t].tag = "Ok"
            /\ disk' = disk]_vars

\* C5's case: remove returned Ok and there was no row of its key.
C5_Witness ==
    \E t \in Threads :
        /\ pc[t] = "idle"
        /\ call[t].op = "remove"
        /\ ret[t] = Ok(Unit)
        /\ settled[call[t].key] # None
        /\ settled[call[t].key][1].kind = "removed"
        /\ ~settled[call[t].key][1].replaced
        /\ slot # None
        /\ disk[slot[1]] # {}

\* C6, as claimed: a get(k) issued after remove(k) returned Ok, no set of k in
\* between, fails with NotFound (the lock and the engine serving it).
C6_RemoveThenGetNotFound ==
    [][\A t \in Threads :
         (/\ Ends(t)
          /\ call[t].op = "get"
          /\ After(t, {"same", "other"})
          /\ armed[t][1].kind = "removed"
          /\ fault'[t] = "none")
         => /\ ret'[t].tag = "Err"
            /\ ret'[t].val = ErrNotFound]_vars

\* C6, amended: the same, when no init installed the database of another
\* directory beside the two calls or between them.
C6_RemoveThenGetNotFoundSameDb ==
    [][\A t \in Threads :
         (/\ Ends(t)
          /\ call[t].op = "get"
          /\ After(t, {"same"})
          /\ armed[t][1].kind = "removed"
          /\ fault'[t] = "none")
         => /\ ret'[t].tag = "Err"
            /\ ret'[t].val = ErrNotFound]_vars

\* C6's case: remove deleted a row of the key, and the get after it found none.
C6_Witness ==
    \E t \in Threads :
        /\ pc[t] = "idle"
        /\ call[t].op = "get"
        /\ After(t, {"same"})
        /\ armed[t][1].kind = "removed"
        /\ armed[t][1].replaced
        /\ fault[t] = "none"
        /\ ret[t] = Err(ErrNotFound)

\* C7: init of a root that does not exist returns the not-exists error at its
\* path check: the handle slot, the lock and the databases stay as they were.
C7_InitMissingRoot ==
    [][\A t \in Threads :
         (/\ pc[t] = "init"
          /\ pc'[t] # "init"
          /\ call[t].root \notin ExistingDirs)
         => /\ pc'[t] = "idle"
            /\ ret'[t].tag = "Err"
            /\ ret'[t].val = ErrNotExists
            /\ UNCHANGED <<slot, readers, writer, poisoned, disk, schema>>]_vars

\* C7's case: the store was initialized, and an init of a missing root left the
\* handle in place.
C7_Witness ==
    \E t \in Threads :
        /\ pc[t] = "idle"
        /\ call[t].op = "init"
        /\ call[t].root \notin ExistingDirs
        /\ ret[t] = Err(ErrNotExists)
        /\ slot # None

\* C8: when the root exists and the engine fails in init (opening the database,
\* getting a connection, the schema statement), init returns an error value and
\* the handle slot stays as it was.
C8_InitEngineError ==
    [][\A t \in Threads :
         (/\ Ends(t)
          /\ call[t].op = "init"
          /\ fault'[t] \in {"open", "pool", "execute"})
         => /\ ret'[t].tag = "Err"
            /\ slot' = slot]_vars

\* C9: a typed setter returns normally in every state of the store; when the set
\* under it failed, the error is logged and the rows stay as they were.
C9_TypedSetReturnsNormally ==
    [][\A t \in Threads :
         (Ends(t) /\ call[t].op = "set_T")
         => /\ ret'[t] = Return(Unit)
            /\ inner'[t].tag # "Ok" => (disk' = disk /\ log'[t] # {})]_vars

\* C10: a typed getter returns an Option in every state of the store, and None
\* when the get under it did not give a record.
C10_TypedGetCollapses ==
    [][\A t \in Threads :
         (Ends(t) /\ call[t].op = "get_T")
         => /\ ret'[t].tag = "Return"
            /\ inner'[t].tag # "Ok" => ret'[t].val = None]_vars

\* C11: no step of an init destroys or changes a row: in every database, the
\* directory it opens included, get of each key finds after the step the record (or
\* the absence) it found before, also when the directory was opened before in this
\* process.
C11_InitKeepsRows ==
    [][\A t \in Threads :
         (call[t].op = "init" /\ InFlight(t) /\ pc'[t] # pc[t])
         => \A d \in Dirs : \A k \in Keys :
                First(FilterKey(disk'[d], k)) = First(FilterKey(disk[d], k))]_vars

\* C11's case: d1 had no kv.db when the process started, so its rows were stored
\* after a first init of d1; a later init of d1 returned Ok and the rows are there.
C11_Witness ==
    \E t \in Threads :
        /\ pc[t] = "idle"
        /\ call[t].op = "init"
        /\ call[t].root = "d1"
        /\ ret[t] = Ok(Unit)
        /\ slot = Some("d1")
        /\ disk["d1"] # {}

\* C12: while inits of existing directories run side by side, the handle slot is
\* empty or holds a database that is open with the schema statement applied; it
\* changes only in the install step of the one init that holds the write guard,
\* and then to the database that init opened, so that after both inits return it
\* holds the database of the one that installed last.
C12_InitInstallsWhole ==
    [][/\ slot' # None => (slot'[1] \in schema' /\ PathExists(slot'[1]))
       /\ slot' # slot
          => \E t \in Threads :
                /\ pc[t] = "wlocked"
                /\ writer = t
                /\ \A u \in Threads \ {t} : pc[u] # "wlocked"
                /\ call[t].root \in schema
                /\ slot' = Some(call[t].root)
                /\ pc'[t] = "idle"
                /\ ret'[t] = Ok(Unit)]_vars

\* C12's case: two inits of different directories overlapped; one has installed
\* its database and returned, the other holds the write guard and installs next.
C12_Witness ==
    \E t \in Threads : \E u \in Threads \ {t} :
        /\ pc[t] = "idle"
        /\ call[t].op = "init"
        /\ ret[t] = Ok(Unit)
        /\ slot = Some(call[t].root)
        /\ pc[u] = "wlocked"
        /\ call[u].root # call[t].root

\* C13: KV_HOLDER excludes: at most one init holds the write guard, and while it
\* does no set, get or remove holds a read guard; the threads at the slot under a
\* read guard are exactly the holders of read guards, which may be several; a
\* thread that runs its statement holds no guard.
C13_LockExcludes ==
    /\ Cardinality({t \in Threads : pc[t] = "wlocked"}) <= 1
    /\ \A t \in Threads : pc[t] = "wlocked" <=> writer = t
    /\ readers = {t \in Threads : pc[t] = "locked"}
    /\ writer # NoThread => readers = {}
    /\ \A t \in readers : call[t].op # "init"
    /\ writer # NoThread => call[writer].op = "init"

\* C13's case: a set, get or remove holds a read guard while an init that has
\* opened its database waits for the write guard.
C13_Witness ==
    \E t \in Threads : \E u \in Threads \ {t} :
        /\ pc[t] = "locked"
        /\ t \in readers
        /\ pc[u] = "wlock"
        /\ writer = NoThread

\* C14: only init changes the handle slot: no step of set, get, remove or a typed
\* accessor changes it, whether the call succeeds or fails, a change of the slot is
\* a step of an init, and a slot that holds a handle never becomes empty again.
C14_OnlyInitWritesSlot ==
    [][/\ slot # None => slot' # None
       /\ \A t \in Threads :
             (InFlight(t) /\ pc'[t] # pc[t] /\ call[t].op # "init") => slot' = slot
       /\ slot' # slot
          => \E t \in Threads : InFlight(t) /\ pc'[t] # pc[t] /\ call[t].op = "init"]_vars

\* C14's case: on an initialized store a typed setter went through the slot to a
\* connection, its set failed in the engine, and the handle is in place.
C14_Witness ==
    \E t \in Threads :
        /\ pc[t] = "idle"
        /\ call[t].op = "set_T"
        /\ inner[t].tag = "Err"
        /\ fault[t] = "execute"
        /\ slot # None

\* C15: with one caller, an init that gets the write guard installs its database
\* over whatever the slot held and returns Ok; every set, get or remove after it
\* runs its statement on the database installed last, and a get returns what that
\* database holds for the key.
C15_LastInitWins ==
    [][\A t \in Threads :
         /\ (pc[t] = "wlocked" /\ pc'[t] = "idle")
            => (slot' = Some(call[t].root) /\ ret'[t] = Ok(Unit))
         /\ pc[t] = "exec" => conn[t] = slot[1]
         /\ (pc[t] = "exec" /\ Ends(t) /\ call[t].op = "get" /\ fault'[t] = "none")
            => ret'[t] = First(FilterKey(disk[slot[1]], call[t].key))]_vars

\* C15's case: a key was stored under d1 (whose rows are all of this process), then
\* init installed d2, and get of the key fails with NotFound while d1 has its row.
C15_Witness ==
    \E t \in Threads :
        /\ pc[t] = "idle"
        /\ call[t].op = "get"
        /\ fault[t] = "none"
        /\ ret[t] = Err(ErrNotFound)
        /\ slot = Some("d2")
        /\ FilterKey(disk["d1"], call[t].key) # {}

\* The number of value fields of a record that are present.
Populated(r) == Cardinality({ty \in Types : r[ty] # None})

\* C16: a row that a step of a typed setter (or of any call but the low-level set)
\* puts into a database has exactly one value field present, so histories without
\* the low-level set keep one field per row; the low-level set stores the record
\* it is given as it is, whatever fields it has.
C16_TypedRowsHaveOneField ==
    [][\A t \in Threads :
         /\ (InFlight(t) /\ pc'[t] # pc[t] /\ call[t].op # "set")
            => \A d \in Dirs : \A r \in disk'[d] \ disk[d] : Populated(r) = 1
         /\ (Ends(t) /\ call[t].op = "set" /\ inner'[t].tag = "Ok")
            => call[t].item \in disk'[conn[t]]]_vars

\* C16's case: a typed setter stored its one-field row in a database where a
\* direct set had stored, under another key, a row with no field or with several.
C16_Witness ==
    \E t \in Threads :
        /\ pc[t] = "idle"
        /\ call[t].op = "set_T"
        /\ inner[t].tag = "Ok"
        /\ slot # None
        /\ call[t].item \in disk[slot[1]]
        /\ Populated(call[t].item) = 1
        /\ \E r \in disk[slot[1]] : Populated(r) # 1

\* C17: a get_T(k) issued after a set_U(k, b) of another type U returned, with no
\* write of k and no init in between, returns None: the row is found, and it has
\* no value of type T, whatever the row that set_U replaced held (the lock and
\* the engine serving both calls).
C17_TypedWriteErasesOtherTypes ==
    [][\A t \in Threads :
         (/\ Ends(t)
          /\ call[t].op = "get_T"
          /\ After(t, {})
          /\ armed[t][1].by = "set_T"
          /\ armed[t][1].typ # call[t].typ
          /\ fault'[t] = "none")
         => /\ inner'[t].tag = "Ok"
            /\ ret'[t].tag = "Return"
            /\ ret'[t].val = None]_vars

\* C17's case: the key had a row with a value of type T (the row of the earlier
\* run in d2), a set_U of another type replaced it, and get_T returned None from
\* the row it found.
C17_Witness ==
    \E t \in Threads :
        /\ pc[t] = "idle"
        /\ call[t].op = "get_T"
        /\ After(t, {})
        /\ armed[t][1].by = "set_T"
        /\ armed[t][1].typ # call[t].typ
        /\ armed[t][1].shed
        /\ fault[t] = "none"
        /\ inner[t].tag = "Ok"
        /\ ret[t] = Return(None)
        /\ slot = Some("d2")
        /\ \E r \in PriorRows : r.key = call[t].key /\ r[call[t].typ] # None

\* C18: the statement of a set is one step at the row: when a set ends with Ok the
\* database of its connection holds for the key exactly the record of that set,
\* whatever other calls are running; the row of a key changes only in the
\* statement of a set or remove of that key; no key ever has two rows. So after
\* two overlapping sets of a key both returned, the row is the record of the one
\* whose statement ran last.
C18_LastUpsertWins ==
    [][/\ \A t \in Threads :
             (/\ pc[t] = "exec"
              /\ Ends(t)
              /\ call[t].op \in {"set", "set_T"}
              /\ inner'[t].tag = "Ok")
             => FilterKey(disk'[conn[t]], call[t].key) = {call[t].item}
       /\ \A d \in Dirs : \A k \in Keys :
             /\ Cardinality(FilterKey(disk'[d], k)) <= 1
             /\ FilterKey(disk'[d], k) # FilterKey(disk[d], k)
                => \E t \in Threads :
                      /\ pc[t] = "exec"
                      /\ pc'[t] = "idle"
                      /\ WritesKey(call[t], k)
                      /\ conn[t] = d]_vars

\* C18's case: two sets of one key with different records overlapped on one
\* database; the statement of the first has run and its record is the row, the
\* second holds its connection and runs its statement next.
C18_Witness ==
    \E t \in Threads : \E u \in Threads \ {t} :
        /\ pc[t] = "idle"
        /\ call[t].op = "set"
        /\ ret[t] = Ok(Unit)
        /\ pc[u] = "exec"
        /\ call[u].op = "set"
        /\ call[u].key = call[t].key
        /\ call[u].item # call[t].item
        /\ FilterKey(disk[conn[u]], call[t].key) = {call[t].item}

\* C19: under fair scheduling every call that was issued returns: a thread inside
\* init, set, get, remove or a typed accessor is eventually outside it, whatever
\* the other thread calls meanwhile.
C19_EveryCallReturns ==
    \A t \in Threads : InFlight(t) ~> ~InFlight(t)

\* C19's case: a set, get or remove waits for its read guard while an init holds
\* the write guard.
C19_Witness ==
    \E t \in Threads : \E u \in Threads \ {t} :
        /\ pc[t] = "read"
        /\ pc[u] = "wlocked"
        /\ writer = u

\* C20: a set, get or remove holds no guard while it runs its statement, and the
\* statement acts on the database that was installed when the call had the read
\* guard, whatever init installed since: the connection is of the slot's database
\* at the checkout and stays so; a set stores its record there and a remove deletes
\* there, leaving every other database as it was; a get reads there.
C20_StatementOutsideLock ==
    [][\A t \in Threads :
         /\ pc[t] = "exec" => (t \notin readers /\ writer # t)
         /\ (pc[t] = "locked" /\ pc'[t] = "exec") => conn'[t] = slot[1]
         /\ (pc[t] = "exec" /\ pc'[t] = "exec") => conn'[t] = conn[t]
         /\ (pc[t] = "exec" /\ Ends(t) /\ IsWrite(call[t]) /\ inner'[t].tag = "Ok")
            => /\ FilterKey(disk'[conn[t]], call[t].key)
                    = IF call[t].op = "remove" THEN {} ELSE {call[t].item}
               /\ \A d \in Dirs \ {conn[t]} : disk'[d] = disk[d]
         /\ (pc[t] = "exec" /\ Ends(t) /\ call[t].op = "get" /\ fault'[t] = "none")
            => ret'[t] = First(FilterKey(disk[conn[t]], call[t].key))]_vars

\* C20's case: an init of d2 installed its database between the checkout and the
\* statement of a set; the set returned Ok with its record stored in d1, and the
\* installed database has no row of the key, so no later get finds the record.
C20_Witness ==
    \E t \in Threads :
        /\ pc[t] = "idle"
        /\ call[t].op = "set"
        /\ ret[t] = Ok(Unit)
        /\ slot = Some("d2")
        /\ call[t].item \in disk["d1"]
        /\ FilterKey(disk["d2"], call[t].key) = {}

====
